---- MODULE Spec2Model ----
(***************************************************************************)
(* A model of docs/build_documentation.py (class DocumentationBuilder).    *)
(*                                                                         *)
(* Text is a sequence of atoms.  An atom is an indivisible piece of text   *)
(* ("#", " ", "\n", "_", a word, a number ...).  The vocabulary is chosen  *)
(* so that no atom's characters contain, or straddle, a string the code    *)
(* searches for: such words are spelled with several atoms ("models" is    *)
(* <<"model","s">>, "glmm" is <<"g","lm","m">>).  Python's substring test, *)
(* startswith, split, join and list.insert are then the same operations on *)
(* sequences of atoms.  A path is the text of the path, separators         *)
(* included.                                                               *)
(***************************************************************************)
EXTENDS Integers, Sequences, FiniteSets, TLC

VARIABLES
    tree,            \* the source tree: the files find_all_markdown_files returns, in order
    docs,            \* the files under docs/: destination path -> content
    file_map,        \* copy_and_organize_files' file_map
    workflow_links,  \* create_cross_references' workflow_links (insertion-ordered dict)
    pc,              \* where build_documentation is
    idx,             \* position of the current loop over files
    issues,          \* validate_internal_links' diagnostics
    lint_env,        \* what invoking markdownlint does: "pass", "fail", "missing",
                     \* "unstartable", "undecodable" or "hangs"
    lint_result,     \* run_markdown_lint's result
    steps,           \* the step banners build_documentation has printed
    interrupts,      \* how many times the process was killed and the build started again
    arg,             \* a single method: its input
    calls,           \* a single method: how many times it was applied
    snap,            \* a single method: the file system its first application left
    res              \* a single method: its result

vars == <<tree, docs, file_map, workflow_links, pc, idx, issues, lint_env,
          lint_result, steps, interrupts, arg, calls, snap, res>>

(***************************************************************************)
(* Python's str and list operations, on sequences of atoms.                *)
(***************************************************************************)
NL == "\n"

\* s.startswith(p)
StartsWith(s, p) == Len(p) <= Len(s) /\ SubSeq(s, 1, Len(p)) = p

\* sub in s
Contains(s, sub) ==
    \E k \in 0..(Len(s) - Len(sub)) : SubSeq(s, k + 1, k + Len(sub)) = sub

\* s.count(sub) for the non-empty strings counted here (none overlaps itself)
Count(s, sub) ==
    Cardinality({k \in 0..(Len(s) - Len(sub)) : SubSeq(s, k + 1, k + Len(sub)) = sub})

\* F applied to the value of e, with e evaluated once
Bind(e, F(_)) == CHOOSE r \in {F(v) : v \in {e}} : TRUE

\* the least element of a set of positions, 0 for the empty set
Least(S) == IF S = {} THEN 0 ELSE CHOOSE n \in S : \A m \in S : n <= m

\* the position of the first atom c of s at or after position from, 0 when there is none
FirstAt(s, c, from) == Bind({n \in from..Len(s) : s[n] = c}, Least)


\* the k-th position, counted from 1, of a set of positions
Nth(S, k) == CHOOSE n \in S : Cardinality({m \in S : m <= n}) = k

\* s.split('\n'): one line more than there are "\n", each line the atoms between
\* two neighbouring "\n" (or an end of s)
SplitLines(s) ==
    LET Lines(content) ==
            LET Between(nls) ==
                    [k \in 1..(Cardinality(nls) + 1) |->
                        SubSeq(content,
                               IF k = 1 THEN 1 ELSE Nth(nls, k - 1) + 1,
                               IF k = Cardinality(nls) + 1 THEN Len(content)
                               ELSE Nth(nls, k) - 1)]
            IN  Bind({n \in 1..Len(content) : content[n] = NL}, Between)
    IN  Bind(s, Lines)

\* '\n'.join(lines)
RECURSIVE JoinLines(_)
JoinLines(lines) ==
    IF lines = <<>> THEN <<>>
    ELSE IF Len(lines) = 1 THEN lines[1]
    ELSE lines[1] \o <<NL>> \o JoinLines(Tail(lines))

\* lines.insert(k, x) with k a 0-based Python index, 0 <= k <= len(lines)
ListInsert(lines, k, x) ==
    SubSeq(lines, 1, k) \o <<x>> \o SubSeq(lines, k + 1, Len(lines))

\* s.replace('_', ' ')
ReplaceUnderscores(s) == [k \in 1..Len(s) |-> IF s[k] = "_" THEN " " ELSE s[k]]

\* The words of the file names and headings, as <<lower case, Capitalized, UPPER CASE>>:
\* every atom of a file name that has letters only is one of these spellings of one
\* word.  Atoms without letters (numbers, "_", " ", "/") are their own lower and title
\* case.
WordCase ==
    { <<"agent", "Agent", "AGENT">>, <<"ic", "Ic", "IC">>,
      <<"prompt", "Prompt", "PROMPT">>, <<"templates", "Templates", "TEMPLATES">>,
      <<"data", "Data", "DATA">>, <<"wrangling", "Wrangling", "WRANGLING">>,
      <<"wrangle", "Wrangle", "WRANGLE">>, <<"tidy", "Tidy", "TIDY">>,
      <<"visualization", "Visualization", "VISUALIZATION">>, <<"viz", "Viz", "VIZ">>,
      <<"plot", "Plot", "PLOT">>, <<"gg", "Gg", "GG">>,
      <<"univariate", "Univariate", "UNIVARIATE">>, <<"model", "Model", "MODEL">>,
      <<"s", "S", "S">>, <<"lm", "Lm", "LM">>, <<"g", "G", "G">>, <<"m", "M", "M">>,
      <<"multivariate", "Multivariate", "MULTIVARIATE">>,
      <<"analysis", "Analysis", "ANALYSIS">>, <<"pca", "Pca", "PCA">>,
      <<"ordination", "Ordination", "ORDINATION">>,
      <<"diversity", "Diversity", "DIVERSITY">>, <<"metrics", "Metrics", "METRICS">>,
      <<"shannon", "Shannon", "SHANNON">>, <<"richness", "Richness", "RICHNESS">>,
      <<"mixed", "Mixed", "MIXED">>, <<"effects", "Effects", "EFFECTS">>,
      <<"time", "Time", "TIME">>, <<"series", "Series", "SERIES">>,
      <<"temporal", "Temporal", "TEMPORAL">>, <<"spatial", "Spatial", "SPATIAL">>,
      <<"gis", "Gis", "GIS">>, <<"raster", "Raster", "RASTER">>,
      <<"species", "Species", "SPECIES">>,
      <<"distribution", "Distribution", "DISTRIBUTION">>, <<"sdm", "Sdm", "SDM">>,
      <<"population", "Population", "POPULATION">>,
      <<"simulation", "Simulation", "SIMULATION">>, <<"intro", "Intro", "INTRO">>,
      <<"import", "Import", "IMPORT">>, <<"summary", "Summary", "SUMMARY">>,
      <<"notes", "Notes", "NOTES">>, <<"demo", "Demo", "DEMO">>,
      <<"maps", "Maps", "MAPS">>, <<"overview", "Overview", "OVERVIEW">>,
      <<"workflows", "Workflows", "WORKFLOWS">>, <<"readme", "Readme", "README">>,
      <<"contributing", "Contributing", "CONTRIBUTING">>, <<"draft", "Draft", "DRAFT">>,
      <<"guide", "Guide", "GUIDE">>, <<"code", "Code", "CODE">>, <<"of", "Of", "OF">>,
      <<"conduct", "Conduct", "CONDUCT">>, <<"docs", "Docs", "DOCS">>,
      <<"examples", "Examples", "EXAMPLES">>, <<"rules", "Rules", "RULES">>,
      <<"manuscript", "Manuscript", "MANUSCRIPT">>,
      <<"nonexistent", "Nonexistent", "NONEXISTENT">>, <<"http", "Http", "HTTP">>,
      <<"other", "Other", "OTHER">>, <<"text", "Text", "TEXT">>, <<"a", "A", "A">>,
      <<"b", "B", "B">>, <<"x", "X", "X">>, <<"n", "N", "N">>, <<"site", "Site", "SITE">>,
      <<"mail", "Mail", "MAIL">>, <<"mailto", "Mailto", "MAILTO">>,
      <<"goal", "Goal", "GOAL">>, <<"related", "Related", "RELATED">>,
      <<"workflow", "Workflow", "WORKFLOW">>, <<"models", "Models", "MODELS">>,
      <<"agentic", "Agentic", "AGENTIC">>, <<"license", "License", "LICENSE">>,
      <<"support", "Support", "SUPPORT">>, <<"vibe", "Vibe", "VIBE">>,
      <<"tidyverse", "Tidyverse", "TIDYVERSE">>, <<"up", "Up", "UP">>,
      <<"reproducible", "Reproducible", "REPRODUCIBLE">>,
      <<"ai", "Ai", "AI">>, <<"r", "R", "R">> }

\* The atoms of a file name that begin with an uncased character and go on with
\* letters, in the same three spellings: the letter after the "." is the first of a
\* word wherever the atom stands ('.md'.title() is '.Md').
SuffixCase == { <<".md", ".Md", ".MD">> }

\* the word an atom is a spelling of, as a set with one or no element
WordOf(a) == {c \in WordCase \cup SuffixCase : a \in {c[1], c[2], c[3]}}

\* the atom has letters (it is cased); every such atom ends with a letter
IsLetters(a) == WordOf(a) # {}

\* one atom of s.lower()
LowerAtom(a) == IF IsLetters(a) THEN (CHOOSE c \in WordOf(a) : TRUE)[1] ELSE a

\* s.lower()
Lower(s) == [k \in 1..Len(s) |-> LowerAtom(s[k])]

\* one atom of s.title(): a letter that follows an uncased character gets a capital,
\* every other letter lower case.  An atom of letters only that follows letters without
\* a separator ("s" in "models") is lower case throughout.
TitleAtom(a, afterLetters) ==
    IF ~IsLetters(a) THEN a
    ELSE IF afterLetters /\ WordOf(a) \subseteq WordCase THEN LowerAtom(a)
    ELSE (CHOOSE c \in WordOf(a) : TRUE)[2]

\* s.title()
Title(s) ==
    [k \in 1..Len(s) |-> TitleAtom(s[k], k > 1 /\ IsLetters(s[k - 1]))]

(***************************************************************************)
(* pathlib.Path: name, stem, and the path relative to docs/.               *)
(***************************************************************************)
\* the 1-based position of the last "/" of p, 0 when there is none
LastSlash(p) ==
    IF \E k \in 1..Len(p) : p[k] = "/"
    THEN CHOOSE k \in 1..Len(p) : p[k] = "/" /\ \A j \in (k + 1)..Len(p) : p[j] # "/"
    ELSE 0

\* Path.name
PathName(p) == SubSeq(p, LastSlash(p) + 1, Len(p))

\* Path.stem: the name without its last suffix (every file here ends in ".md")
PathStem(p) ==
    LET n == PathName(p)
    IN  IF Len(n) > 1 /\ n[Len(n)] = ".md" THEN SubSeq(n, 1, Len(n) - 1) ELSE n

\* self.docs_path, self.workflows_path relative to the base directory "."
docs_path == <<"docs">>
workflows_path == <<"docs", "/", "workflows">>

\* parent / name
PathJoin(dir, name) == dir \o <<"/">> \o name

\* file_path.relative_to(self.docs_path)
RelativeToDocs(p) == SubSeq(p, Len(docs_path) + 2, Len(p))

(***************************************************************************)
(* self.workflow_categories: key -> display label, in insertion order.     *)
(***************************************************************************)
workflow_categories ==
    << [key |-> <<"00", "_", "agent", "ic", "_", "prompt", "_", "templates">>,
        label |-> <<":robot:", " ", "Agentic", " ", "AI", " ", "Templates">>],
       [key |-> <<"01", "_", "data", "_", "wrangling">>,
        label |-> <<":broom:", " ", "Data", " ", "Wrangling">>],
       [key |-> <<"02", "_", "visualization">>,
        label |-> <<":bar_chart:", " ", "Visualization">>],
       [key |-> <<"03", "_", "univariate", "_", "model", "s">>,
        label |-> <<":chart_up:", " ", "Univariate", " ", "Models">>],
       [key |-> <<"04", "_", "multivariate", "_", "analysis">>,
        label |-> <<":microscope:", " ", "Multivariate", " ", "Analysis">>],
       [key |-> <<"05", "_", "diversity", "_", "metrics">>,
        label |-> <<":herb:", " ", "Diversity", " ", "Metrics">>],
       [key |-> <<"06", "_", "mixed", "_", "effects", "_", "model", "s">>,
        label |-> <<":arrows:", " ", "Mixed", " ", "Effects", " ", "Models">>],
       [key |-> <<"07", "_", "time", "_", "series", "_", "analysis">>,
        label |-> <<":alarm_clock:", " ", "Time", " ", "Series", " ", "Analysis">>],
       [key |-> <<"08", "_", "spatial", "_", "analysis">>,
        label |-> <<":world_map:", " ", "Spatial", " ", "Analysis">>],
       [key |-> <<"09", "_", "species", "_", "distribution">>,
        label |-> <<":butterfly:", " ", "Species", " ", "Distribution">>],
       [key |-> <<"10", "_", "population", "_", "simulation">>,
        label |-> <<":numbers:", " ", "Population", " ", "Simulation">>] >>

\* self.workflow_categories.get(category, category)
CategoryName(category) ==
    IF \E k \in 1..Len(workflow_categories) : workflow_categories[k].key = category
    THEN workflow_categories[CHOOSE k \in 1..Len(workflow_categories) :
                                 workflow_categories[k].key = category].label
    ELSE category

\* the position in workflow_categories of the first key that occurs in s, 0 when none does
FirstCategoryIn(s) ==
    IF \E k \in 1..Len(workflow_categories) : Contains(s, workflow_categories[k].key)
    THEN CHOOSE k \in 1..Len(workflow_categories) :
             /\ Contains(s, workflow_categories[k].key)
             /\ \A j \in 1..(k - 1) : ~Contains(s, workflow_categories[j].key)
    ELSE 0

\* determine_category's filename rules: keywords -> category, first match wins
FilenameRules ==
    << [words |-> {<<"data">>, <<"wrangle">>, <<"tidy">>},
        category |-> <<"01", "_", "data", "_", "wrangling">>],
       [words |-> {<<"viz">>, <<"plot">>, <<"gg", "plot">>},
        category |-> <<"02", "_", "visualization">>],
       [words |-> {<<"model">>, <<"lm">>, <<"g", "lm">>},
        category |-> <<"03", "_", "univariate", "_", "model", "s">>],
       [words |-> {<<"pca">>, <<"ordination">>, <<"multivariate">>},
        category |-> <<"04", "_", "multivariate", "_", "analysis">>],
       [words |-> {<<"diversity">>, <<"shannon">>, <<"richness">>},
        category |-> <<"05", "_", "diversity", "_", "metrics">>],
       [words |-> {<<"mixed">>, <<"lm", "m">>, <<"g", "lm", "m">>},
        category |-> <<"06", "_", "mixed", "_", "effects", "_", "model", "s">>],
       [words |-> {<<"spatial">>, <<"gis">>, <<"raster">>},
        category |-> <<"08", "_", "spatial", "_", "analysis">>],
       [words |-> {<<"species">>, <<"distribution">>, <<"sdm">>},
        category |-> <<"09", "_", "species", "_", "distribution">>],
       [words |-> {<<"time">>, <<"series">>, <<"temporal">>},
        category |-> <<"07", "_", "time", "_", "series", "_", "analysis">>],
       [words |-> {<<"population">>, <<"simulation">>, <<"agent">>},
        category |-> <<"10", "_", "population", "_", "simulation">>] >>

RuleMatches(k, name) == \E w \in FilenameRules[k].words : Contains(name, w)

\* determine_category with the loop over the category keys left out
determine_category_no_scan(file_path) ==
    LET name == Lower(PathStem(file_path))
    IN  IF \E k \in 1..Len(FilenameRules) : RuleMatches(k, name)
        THEN FilenameRules[CHOOSE k \in 1..Len(FilenameRules) :
                               /\ RuleMatches(k, name)
                               /\ \A j \in 1..(k - 1) : ~RuleMatches(j, name)].category
        ELSE <<"00", "_", "other">>

\* determine_category
determine_category(file_path) ==
    IF FirstCategoryIn(file_path) # 0
    THEN workflow_categories[FirstCategoryIn(file_path)].key
    ELSE determine_category_no_scan(file_path)

(***************************************************************************)
(* The file system under docs/: a function from path to content.           *)
(***************************************************************************)
Exists(fs, p) == p \in DOMAIN fs

\* Path.write_text / shutil.copy2 onto p: the file is created or overwritten
WriteFile(fs, p, c) == [q \in (DOMAIN fs) \cup {p} |-> IF q = p THEN c ELSE fs[q]]

EmptyFs == [q \in {} |-> <<>>]

(***************************************************************************)
(* add_reproduction_badges                                                 *)
(***************************************************************************)
repo_url == <<"http", "s://github.com/Fabbiologia/vibe-coding-for-ecology">>

\* "[![name](image)](target)"
BadgeLine(name, image, target) ==
    <<"[", "!", "[", name, "]", "(">> \o image \o <<")", "]", "(">> \o target \o <<")">>

ReproducibleImage == <<"http", "s://img.shields.io/badge/Reproducible-Yes-brightgreen">>

\* the four badge lines of badge_section and of the index header
BadgeLines(repo) ==
    BadgeLine("Reproducible", ReproducibleImage, repo) \o <<NL>>
    \o BadgeLine("R", <<"http", "s://img.shields.io/badge/R-4.0+-blue">>,
                 <<"http", "s://www.r-project.org/">>) \o <<NL>>
    \o BadgeLine("Tidyverse", <<"http", "s://img.shields.io/badge/Tidyverse-Compatible-orange">>,
                 <<"http", "s://www.tidyverse.org/">>) \o <<NL>>
    \o BadgeLine("License", <<"http", "s://img.shields.io/badge/License-MIT-yellow.svg">>,
                 <<"http", "s://opensource.org/licenses/MIT">>)

\* badge_section
badge_section == <<NL>> \o BadgeLines(repo_url) \o <<NL, NL>>

\* the string whose presence means "badges already exist"
BadgeMarker == <<"!", "[", "Reproducible", "]", "(">> \o ReproducibleImage \o <<")">>

\* "i < 10": a heading counts only within the first 10 lines
HeadingWindow == 10

\* the 1-based positions of the lines the loop would insert after
BadgeHeadings(lines) ==
    {k \in 1..Len(lines) : StartsWith(lines[k], <<"#">>) /\ k - 1 < HeadingWindow}

\* lines after the loop "insert after the first heading, break"
InsertBadges(lines) ==
    IF BadgeHeadings(lines) = {} THEN lines
    ELSE LET k == CHOOSE h \in BadgeHeadings(lines) : \A g \in BadgeHeadings(lines) : h <= g
         IN  ListInsert(lines, k, badge_section)

\* add_reproduction_badges without the "badges already exist" check
add_reproduction_badges_unguarded(fs, file_path) ==
    IF ~Exists(fs, file_path) THEN fs
    ELSE WriteFile(fs, file_path, JoinLines(Bind(SplitLines(fs[file_path]), InsertBadges)))

\* add_reproduction_badges: the file system it leaves
add_reproduction_badges(fs, file_path) ==
    IF ~Exists(fs, file_path) THEN fs
    ELSE IF Contains(fs[file_path], BadgeMarker) THEN fs
    ELSE WriteFile(fs, file_path, JoinLines(Bind(SplitLines(fs[file_path]), InsertBadges)))

(***************************************************************************)
(* Python dicts keep insertion order: a sequence of [k, v] entries.        *)
(***************************************************************************)
DictHas(d, key) == \E n \in 1..Len(d) : d[n].k = key

\* d[key] = value: a new key goes last, a known key keeps its place
DictSet(d, key, value) ==
    IF DictHas(d, key)
    THEN [n \in 1..Len(d) |-> IF d[n].k = key THEN [k |-> key, v |-> value] ELSE d[n]]
    ELSE Append(d, [k |-> key, v |-> value])

RECURSIVE DictFromAssignments(_, _)
DictFromAssignments(d, assignments) ==
    IF assignments = <<>> THEN d
    ELSE Bind(DictSet(d, Head(assignments).k, Head(assignments).v),
              LAMBDA assigned : DictFromAssignments(assigned, Tail(assignments)))

(***************************************************************************)
(* create_cross_references, find_related_workflows,                        *)
(* add_cross_references_to_file                                            *)
(***************************************************************************)
\* f"workflows/{workflow_file.name}"
WorkflowLink(workflow_file) == <<"workflows", "/">> \o PathName(workflow_file)

\* create_cross_references' first loop: stem -> link, the first file of a stem wins
RECURSIVE BuildWorkflowLinks(_, _)
BuildWorkflowLinks(links, files) ==
    IF files = <<>> THEN links
    ELSE Bind(IF DictHas(links, PathStem(Head(files))) THEN links
              ELSE Append(links, [k |-> PathStem(Head(files)),
                                  v |-> WorkflowLink(Head(files))]),
              LAMBDA added : BuildWorkflowLinks(added, Tail(files)))

\* find_related_workflows' relationships table
relationships ==
    << [key |-> <<"data", "_", "wrangling">>,
        related |-> << <<"visualization">>, <<"univariate">>, <<"multivariate">> >>],
       [key |-> <<"visualization">>,
        related |-> << <<"data", "_", "wrangling">>, <<"univariate">>, <<"multivariate">> >>],
       [key |-> <<"univariate">>,
        related |-> << <<"data", "_", "wrangling">>, <<"visualization">>, <<"multivariate">> >>],
       [key |-> <<"multivariate">>,
        related |-> << <<"data", "_", "wrangling">>, <<"visualization">>, <<"diversity">> >>],
       [key |-> <<"diversity">>,
        related |-> << <<"multivariate">>, <<"spatial">>, <<"mixed", "_", "effects">> >>],
       [key |-> <<"mixed", "_", "effects">>,
        related |-> << <<"univariate">>, <<"diversity">>, <<"population">> >>],
       [key |-> <<"spatial">>,
        related |-> << <<"diversity">>, <<"species", "_", "distribution">>, <<"time", "_", "series">> >>],
       [key |-> <<"species", "_", "distribution">>,
        related |-> << <<"spatial">>, <<"multivariate">>, <<"mixed", "_", "effects">> >>],
       [key |-> <<"time", "_", "series">>,
        related |-> << <<"spatial">>, <<"mixed", "_", "effects">>, <<"population">> >>],
       [key |-> <<"population">>,
        related |-> << <<"mixed", "_", "effects">>, <<"time", "_", "series">>,
                       <<"species", "_", "distribution">> >>] >>

\* category.split('_', 1)[1] if '_' in category else category
NormalizedName(category) ==
    IF \E n \in 1..Len(category) : category[n] = "_"
    THEN LET first == CHOOSE n \in 1..Len(category) :
                          category[n] = "_" /\ \A j \in 1..(n - 1) : category[j] # "_"
         IN  SubSeq(category, first + 1, Len(category))
    ELSE category

\* relationships[current_type], the empty list when current_type is no key
RelatedTypes(current_type) ==
    IF \E n \in 1..Len(relationships) : relationships[n].key = current_type
    THEN relationships[CHOOSE n \in 1..Len(relationships) :
                           relationships[n].key = current_type].related
    ELSE <<>>

\* the assignments related[...] = ... of the nested loops, in order
RECURSIVE RelatedAssignments(_, _)
RelatedAssignments(types, links) ==
    IF types = <<>> THEN <<>>
    ELSE LET Hit(l) == Contains(Lower(l.k), Head(types))
             Assign(hits) ==
                 [n \in 1..Len(hits) |->
                     [k |-> Title(ReplaceUnderscores(hits[n].k)), v |-> hits[n].v]]
         IN  Bind(SelectSeq(links, Hit), Assign)
             \o RelatedAssignments(Tail(types), links)

\* find_related_workflows: the dict related
find_related_workflows(file_path, links) ==
    IF FirstCategoryIn(file_path) = 0 THEN <<>>
    ELSE Bind(RelatedAssignments(
                  RelatedTypes(NormalizedName(
                      workflow_categories[FirstCategoryIn(file_path)].key)),
                  links),
              LAMBDA assignments : DictFromAssignments(<<>>, assignments))

RelatedHeader == <<"#", "#", " ", "Related", " ", "Workflows">>

RECURSIVE RelatedBullets(_)
RelatedBullets(related) ==
    IF related = <<>> THEN <<>>
    ELSE <<"-", " ", "[">> \o Head(related).k \o <<"]", "(">> \o Head(related).v \o <<")", NL>>
         \o RelatedBullets(Tail(related))

\* cross_ref_section
cross_ref_section(related) ==
    <<NL>> \o RelatedHeader \o <<NL, NL>> \o RelatedBullets(related) \o <<NL>>

\* the same test with a heading of any level accepted
SummaryHeadingsAnyLevel(lines) ==
    {n \in 1..Len(lines) :
        StartsWith(lines[n], <<"#">>) /\ Contains(lines[n], <<"Summary">>)}

\* the 1-based positions of the lines that pass the loop's test for a Summary heading
SummaryHeadings(lines) ==
    {n \in 1..Len(lines) :
        StartsWith(lines[n], <<"#", "#", " ">>) /\ Contains(lines[n], <<"Summary">>)}

\* the content with the section inserted: before the last Summary heading, else at the end
InsertCrossReferences(content, section) ==
    LET Insert(lines) ==
            LET hs == SummaryHeadings(lines)
            IN  IF hs = {} THEN content \o section
                ELSE LET last == CHOOSE h \in hs : \A g \in hs : g <= h
                     IN  JoinLines(ListInsert(lines, last - 1, section))
    IN  Bind(SplitLines(content), Insert)

\* add_cross_references_to_file without the "already exist" check
add_cross_references_unguarded(fs, file_path, links) ==
    IF ~Exists(fs, file_path) THEN fs
    ELSE LET Add(related) ==
                 IF related = <<>> THEN fs
                 ELSE WriteFile(fs, file_path,
                          InsertCrossReferences(fs[file_path], cross_ref_section(related)))
         IN  Bind(find_related_workflows(file_path, links), Add)

\* add_cross_references_to_file: the file system it leaves
add_cross_references_to_file(fs, file_path, links) ==
    IF ~Exists(fs, file_path) THEN fs
    ELSE IF Contains(fs[file_path], RelatedHeader) THEN fs
    ELSE LET Add(related) ==
                 IF related = <<>> THEN fs
                 ELSE WriteFile(fs, file_path,
                          InsertCrossReferences(fs[file_path], cross_ref_section(related)))
         IN  Bind(find_related_workflows(file_path, links), Add)

(***************************************************************************)
(* extract_workflow_title, extract_title                                   *)
(***************************************************************************)
\* s.strip(): the only white space inside a line of the vocabulary is " "
RECURSIVE Strip(_)
Strip(s) ==
    IF s = <<>> THEN s
    ELSE IF Head(s) = " " THEN Strip(Tail(s))
    ELSE IF s[Len(s)] = " " THEN Strip(SubSeq(s, 1, Len(s) - 1))
    ELSE s

\* the line prefixes of the three patterns '^<prefix>(.+)$', in the order of the list
TitlePatterns ==
    << <<"#", " ", "Vibe", " ", "Workflow", ":", " ">>,
       <<"**", "Goal", ":", "**", " ">>,
       <<"#", " ">> >>

\* the same patterns with the generic heading tried before the Goal line
TitlePatternsGenericFirst ==
    << <<"#", " ", "Vibe", " ", "Workflow", ":", " ">>,
       <<"#", " ">>,
       <<"**", "Goal", ":", "**", " ">> >>

\* the lines '^<prefix>(.+)$' matches: the prefix and at least one more character
PatternLines(lines, prefix) ==
    {n \in 1..Len(lines) : StartsWith(lines[n], prefix) /\ Len(lines[n]) > Len(prefix)}

\* re.search(pattern, content, re.MULTILINE).group(1) for the leftmost match
FirstCapture(lines, prefix) ==
    LET n == CHOOSE h \in PatternLines(lines, prefix) :
                 \A g \in PatternLines(lines, prefix) : h <= g
    IN  SubSeq(lines[n], Len(prefix) + 1, Len(lines[n]))

\* file_path.stem.replace('_', ' ').title()
FilenameTitle(file_path) == Title(ReplaceUnderscores(PathStem(file_path)))

\* the loop over the patterns: the first pattern that matches decides
RECURSIVE SearchPatterns(_, _, _)
SearchPatterns(lines, patterns, file_path) ==
    IF patterns = <<>> THEN FilenameTitle(file_path)
    ELSE IF PatternLines(lines, Head(patterns)) # {}
    THEN Strip(FirstCapture(lines, Head(patterns)))
    ELSE SearchPatterns(lines, Tail(patterns), file_path)

\* extract_workflow_title with the generic heading tried before the Goal line
extract_workflow_title_generic_first(fs, file_path) ==
    IF ~Exists(fs, file_path) THEN FilenameTitle(file_path)
    ELSE Bind(SplitLines(fs[file_path]),
              LAMBDA lines : SearchPatterns(lines, TitlePatternsGenericFirst, file_path))

\* extract_workflow_title
extract_workflow_title(fs, file_path) ==
    IF ~Exists(fs, file_path) THEN FilenameTitle(file_path)
    ELSE Bind(SplitLines(fs[file_path]),
              LAMBDA lines : SearchPatterns(lines, TitlePatterns, file_path))

\* extract_title
extract_title(fs, file_path) ==
    IF ~Exists(fs, file_path) THEN FilenameTitle(file_path)
    ELSE Bind(SplitLines(fs[file_path]),
              LAMBDA lines : SearchPatterns(lines, << <<"#", " ">> >>, file_path))

(***************************************************************************)
(* validate_internal_links                                                 *)
(***************************************************************************)
\* the match of \[([^\]]+)\]\(([^\)]+)\) that starts at position n, if there is one:
\* "[", text up to the first "]", "(", url up to the first ")"
LinkMatchAt(s, n) ==
    LET Match(close, paren) ==
            IF /\ s[n] = "["
               /\ close > n + 1
               /\ close + 1 <= Len(s)
               /\ s[close + 1] = "("
               /\ paren > close + 2
            THEN [ok |-> TRUE, text |-> SubSeq(s, n + 1, close - 1),
                  url |-> SubSeq(s, close + 2, paren - 1), end |-> paren]
            ELSE [ok |-> FALSE, text |-> <<>>, url |-> <<>>, end |-> n]
        AfterClose(close) ==
            LET AfterParen(paren) == Match(close, paren)
            IN  Bind(IF close = 0 THEN 0 ELSE FirstAt(s, ")", close + 2), AfterParen)
    IN  Bind(FirstAt(s, "]", n + 1), AfterClose)

\* re.findall: the matches from left to right, none overlapping another.  A match
\* starts at a "[": the search goes from one "[" to the next.
RECURSIVE FindLinksFrom(_, _)
FindLinksFrom(s, from) ==
    LET n == FirstAt(s, "[", from)
        Rest(m) == (IF m.ok THEN <<[text |-> m.text, url |-> m.url]>> ELSE <<>>)
                   \o FindLinksFrom(s, m.end + 1)
    IN  IF n = 0 THEN <<>> ELSE Bind(LinkMatchAt(s, n), Rest)

FindLinks(content) == Bind(content, LAMBDA s : FindLinksFrom(s, 1))

\* f"Broken link in {file_path.name}: [{link_text}]({link_url})"
BrokenLinkMessage(file_path, link) ==
    <<"Broken link in ">> \o PathName(file_path) \o <<": ", "[">> \o link.text
    \o <<"]", "(">> \o link.url \o <<")">>

\* all_files: the lists of file_map.values(), one after the other
AllFiles(fm) == fm.workflows \o fm.examples \o fm.rules \o fm.main

\* available_files
AvailableFiles(fm) ==
    {PathName(AllFiles(fm)[n]) : n \in 1..Len(AllFiles(fm))}
    \cup {RelativeToDocs(AllFiles(fm)[n]) : n \in 1..Len(AllFiles(fm))}

\* link_url.startswith('http')
IsExternal(url) == StartsWith(url, <<"http">>)

\* the diagnostics of one file
FileIssues(fs, fm, file_path) ==
    LET Messages(available_files) ==
            LET Broken(l) == ~IsExternal(l.url) /\ l.url \notin available_files
                Report(broken) ==
                    [n \in 1..Len(broken) |-> BrokenLinkMessage(file_path, broken[n])]
            IN  Bind(SelectSeq(FindLinks(fs[file_path]), Broken), Report)
    IN  Bind(AvailableFiles(fm), Messages)

RECURSIVE IssuesOf(_, _, _)
IssuesOf(fs, fm, files) ==
    IF files = <<>> THEN <<>>
    ELSE FileIssues(fs, fm, Head(files)) \o IssuesOf(fs, fm, Tail(files))

\* validate_internal_links: issues
validate_internal_links(fs, fm) ==
    Bind(AllFiles(fm), LAMBDA all_files : IssuesOf(fs, fm, all_files))

(***************************************************************************)
(* generate_index_readme                                                   *)
(***************************************************************************)
\* The atoms of the file names, in the order of their text (ASCII).  No atom is a
\* prefix of another, so comparing names atom by atom compares their text.
AtomOrder ==
    << ".md", "/", "01", "02", "CONTRIBUTING", "README", "_", "data", "demo", "docs",
       "examples", "guide", "import", "intro", "plot", "rules", "visualization",
       "workflows", "wrangling" >>

AtomRank(a) == CHOOSE n \in 1..Len(AtomOrder) : AtomOrder[n] = a

\* p < q, for two paths of one directory
RECURSIVE PathLess(_, _)
PathLess(p, q) ==
    IF q = <<>> THEN FALSE
    ELSE IF p = <<>> THEN TRUE
    ELSE IF Head(p) = Head(q) THEN PathLess(Tail(p), Tail(q))
    ELSE AtomRank(Head(p)) < AtomRank(Head(q))

\* x put into the sorted list s, after the elements equal to it
RECURSIVE SortedInsert(_, _)
SortedInsert(s, x) ==
    IF s = <<>> THEN <<x>>
    ELSE IF PathLess(x, Head(s)) THEN <<x>> \o s
    ELSE <<Head(s)>> \o SortedInsert(Tail(s), x)

\* sorted(files)
RECURSIVE Sorted(_)
Sorted(files) ==
    IF files = <<>> THEN <<>>
    ELSE SortedInsert(Sorted(SubSeq(files, 1, Len(files) - 1)), files[Len(files)])

\* the header of the index: title, introduction, badges, quick start, structure
IndexHeader ==
    <<"#", " ", ":seedling:", " ", "Vibe Coding for Ecology: Documentation Index", NL, NL,
      "(welcome)", NL, NL>>
    \o BadgeLines(repo_url)
    \o <<NL, NL, "#", "#", " ", ":dart:", " ", "Quick Start", NL, NL, "(quick start)", NL, NL,
         "#", "#", " ", ":books:", " ", "Documentation Structure", NL, NL,
         "#", "#", "#", " ", ":microscope:", " ", "Workflow Categories", NL, NL>>

\* the closing block: dependency diagram, quality assurance, getting started, support
IndexFooter ==
    <<NL, NL, "#", "#", " ", ":arrows:", " ", "Workflow Dependencies", NL, NL,
      "(dependencies)", NL, "A", "[">> \o workflow_categories[1].key
    \o <<"]", " --> ", "B", "[">> \o workflow_categories[2].key
    \o <<"]", NL, "(more edges)", NL, NL,
         "#", "#", " ", ":test_tube:", " ", "Quality Assurance", NL, NL, "(checklist)", NL, NL,
         "#", "#", " ", ":rocket:", " ", "Getting Started", NL, NL, "(getting started)", NL, NL,
         "#", "#", " ", ":telephone:", " ", "Support", NL, NL,
         "- **Issues**: ", "[", "GitHub Issues", "]", "(">> \o repo_url \o <<"/issues", ")", NL,
         "- **Discussions**: ", "[", "GitHub Discussions", "]", "(">> \o repo_url
    \o <<"/discussions", ")", NL,
         "- **Contributing**: See ", "[", "CONTRIBUTING", ".md", "]", "(",
         "rules", "/", "CONTRIBUTING", ".md", ")", NL, NL, "---", NL, NL, "(closing)", NL>>

\* f"\n#### {category_name}\n\n"
CategoryHeading(category) ==
    <<NL, "#", "#", "#", "#", " ">> \o CategoryName(category) \o <<NL, NL>>

\* f"- [{title}]({link})\n"
LinkLine(title, link) == <<"-", " ", "[">> \o title \o <<"]", "(">> \o link \o <<")", NL>>

\* the loop over the sorted workflow files: a heading whenever the category changes
RECURSIVE IndexWorkflows(_, _, _)
IndexWorkflows(fs, files, current_category) ==
    IF files = <<>> THEN <<>>
    ELSE LET Entry(workflow_file, category) ==
                 (IF category # current_category THEN CategoryHeading(category) ELSE <<>>)
                 \o LinkLine(extract_workflow_title(fs, workflow_file),
                             WorkflowLink(workflow_file))
                 \o IndexWorkflows(fs, Tail(files), category)
             File(workflow_file) ==
                 Bind(determine_category(workflow_file),
                      LAMBDA category : Entry(workflow_file, category))
         IN  Bind(Head(files), File)

\* the loops over the example, rule and main files; prefix is "examples/", "rules/" or ""
RECURSIVE IndexOthers(_, _, _)
IndexOthers(fs, files, prefix) ==
    IF files = <<>> THEN <<>>
    ELSE LET Entry(file) == LinkLine(extract_title(fs, file), prefix \o PathName(file))
                            \o IndexOthers(fs, Tail(files), prefix)
         IN  Bind(Head(files), Entry)

\* generate_index_readme: index_content.  None, the first current_category, is <<>>.
generate_index_readme(fs, fm) ==
    IndexHeader
    \o Bind(Sorted(fm.workflows), LAMBDA files : IndexWorkflows(fs, files, <<>>))
    \o <<NL, NL, "#", "#", "#", " ", ":book:", " ", "Examples & Templates", NL, NL>>
    \o Bind(Sorted(fm.examples), LAMBDA files : IndexOthers(fs, files, <<"examples", "/">>))
    \o <<NL, NL, "#", "#", "#", " ", ":clipboard:", " ", "Rules & Guidelines", NL, NL>>
    \o Bind(Sorted(fm.rules), LAMBDA files : IndexOthers(fs, files, <<"rules", "/">>))
    \o <<NL, NL, "#", "#", "#", " ", ":house:", " ", "Main Documentation", NL, NL>>
    \o Bind(Sorted(fm.main), LAMBDA files : IndexOthers(fs, files, <<>>))
    \o IndexFooter

\* index_file
IndexPath == PathJoin(docs_path, <<"README", ".md">>)

\* index_file.write_text(index_content) with the file opened for appending
WriteIndexAppending(fs, index_content) ==
    WriteFile(fs, IndexPath,
              IF Exists(fs, IndexPath) THEN fs[IndexPath] \o index_content ELSE index_content)

\* index_file.write_text(index_content)
WriteIndex(fs, index_content) == WriteFile(fs, IndexPath, index_content)

(***************************************************************************)
(* run_markdown_lint.  env is what starting the markdownlint executable    *)
(* does: "pass" (exit code 0), "fail" (another exit code), "missing"       *)
(* (subprocess.run raises FileNotFoundError) or "unstartable" (a file of   *)
(* that name is on PATH but cannot be executed: subprocess.run raises      *)
(* PermissionError or another OSError), "undecodable" (the executable ends, *)
(* with any exit code, after printing bytes that are not valid text in the *)
(* locale's encoding: subprocess.run with text=True raises                 *)
(* UnicodeDecodeError) or "hangs" (the executable starts and does not      *)
(* end).  "pass" and "fail" print decodable output.                        *)
(* raised: an exception leaves the function; the only                      *)
(* handler is the one for FileNotFoundError.  blocked: the function does   *)
(* not return; subprocess.run is called without timeout and waits for the  *)
(* child to end.                                                           *)
(***************************************************************************)
run_markdown_lint(env) ==
    IF env = "pass"
    THEN [raised |-> FALSE, blocked |-> FALSE, passed |-> TRUE, message |-> "pass"]
    ELSE IF env = "fail"
    THEN [raised |-> FALSE, blocked |-> FALSE, passed |-> FALSE, message |-> "issues"]
    ELSE IF env = "missing"
    THEN [raised |-> FALSE, blocked |-> FALSE, passed |-> FALSE, message |-> "not found"]
    ELSE IF env = "unstartable"
    THEN [raised |-> TRUE, blocked |-> FALSE, passed |-> FALSE, message |-> "OSError"]
    ELSE IF env = "undecodable"
    THEN [raised |-> TRUE, blocked |-> FALSE, passed |-> FALSE,
          message |-> "UnicodeDecodeError"]
    ELSE [raised |-> FALSE, blocked |-> TRUE, passed |-> FALSE, message |-> "none"]

(***************************************************************************)
(* copy_and_organize_files                                                 *)
(***************************************************************************)
\* file_map before the loop
EmptyFileMap == [workflows |-> <<>>, examples |-> <<>>, rules |-> <<>>, main |-> <<>>]

MainNames == { <<"README", ".md">>, <<"CODE", "_", "OF", "_", "CONDUCT", ".md">> }

\* the if/elif chain with the tests for "examples" and "workflows" exchanged
RouteExamplesFirst(relative_path) ==
    IF Contains(relative_path, <<"examples">>) THEN "examples"
    ELSE IF Contains(relative_path, <<"workflows">>) THEN "workflows"
    ELSE IF Contains(relative_path, <<"rules">>) THEN "rules"
    ELSE IF PathName(relative_path) \in MainNames THEN "main"
    ELSE "none"

\* the if/elif chain of the loop body: which branch a relative path takes
Route(relative_path) ==
    IF Contains(relative_path, <<"workflows">>) THEN "workflows"
    ELSE IF Contains(relative_path, <<"examples">>) THEN "examples"
    ELSE IF Contains(relative_path, <<"rules">>) THEN "rules"
    ELSE IF PathName(relative_path) \in MainNames THEN "main"
    ELSE "none"

\* dest_path of a branch
DestPath(route, relative_path) ==
    IF route = "workflows" THEN PathJoin(workflows_path, PathName(relative_path))
    ELSE IF route = "examples"
    THEN PathJoin(PathJoin(docs_path, <<"examples">>), PathName(relative_path))
    ELSE IF route = "rules"
    THEN PathJoin(PathJoin(docs_path, <<"rules">>), PathName(relative_path))
    ELSE PathJoin(docs_path, PathName(relative_path))

\* one pass of the loop body: the file system and the file_map it leaves
CopyOne(fs, fm, file) ==
    LET route == Route(file.path)
        dest == DestPath(route, file.path)
    IN  IF route = "none" THEN [fs |-> fs, fm |-> fm]
        ELSE [fs |-> WriteFile(fs, dest, file.content),
              fm |-> [fm EXCEPT ![route] = Append(@, dest)]]

\* copy_and_organize_files: the loop over all_files, from the file system fs
RECURSIVE CopyAll(_, _, _)
CopyAll(fs, fm, files) ==
    IF files = <<>> THEN [fs |-> fs, fm |-> fm]
    ELSE CopyAll(CopyOne(fs, fm, Head(files)).fs, CopyOne(fs, fm, Head(files)).fm, Tail(files))

copy_and_organize_files(fs, files) == CopyAll(fs, EmptyFileMap, files)

\* build_documentation's loop "for workflow_file in file_map['workflows']" of step 2
RECURSIVE BadgeAll(_, _)
BadgeAll(fs, files) ==
    IF files = <<>> THEN fs
    ELSE BadgeAll(add_reproduction_badges(fs, Head(files)), Tail(files))

\* create_cross_references' second loop
RECURSIVE CrossReferenceAll(_, _, _)
CrossReferenceAll(fs, files, links) ==
    IF files = <<>> THEN fs
    ELSE CrossReferenceAll(add_cross_references_to_file(fs, Head(files), links),
                           Tail(files), links)

\* create_cross_references
create_cross_references(fs, fm) ==
    CrossReferenceAll(fs, fm.workflows, BuildWorkflowLinks(<<>>, fm.workflows))

\* build_documentation, steps 1 to 4, run without interruption from the file system
\* fs: the files under docs/ it leaves (steps 5 and 6 write no file)
build_documentation(fs, files) ==
    LET copied == copy_and_organize_files(fs, files)
        linked == create_cross_references(BadgeAll(copied.fs, copied.fm.workflows), copied.fm)
    IN  WriteIndex(linked, generate_index_readme(linked, copied.fm))

(***************************************************************************)
(* The source trees.  A tree is the list find_all_markdown_files returns:  *)
(* the *.md files of the base directory, then those under workflows/,      *)
(* examples/, rules/ and manuscript/.  docs/ itself is not searched.       *)
(***************************************************************************)
K01 == workflow_categories[2].key
K02 == workflow_categories[3].key
K08 == workflow_categories[9].key

Catalog ==
    << [path |-> <<"README", ".md">>,
        content |-> <<"#", " ", "Readme", NL, "[", "guide", "]", "(", "notes", ".md", ")">>],
       [path |-> <<"notes", ".md">>,
        content |-> <<"#", " ", "Notes">>],
       [path |-> <<"workflows", "/">> \o K01 \o <<"/", "intro", ".md">>,
        content |-> <<"#", " ", "Intro">>],
       [path |-> <<"workflows", "/">> \o K02 \o <<"/", "intro", ".md">>,
        content |-> <<"**", "Goal", ":", "**", " ", "Plot", NL, "#", " ", "Intro">>],
       [path |-> <<"workflows", "/">> \o K01 \o <<"/">> \o K01 \o <<"_", "import", ".md">>,
        content |-> <<"#", " ", "Import", NL, "#", "#", " ", "Summary", NL, "text">>],
       [path |-> <<"workflows", "/">> \o K02 \o <<"/">> \o K02 \o <<"_", "plot", ".md">>,
        content |-> <<"text", " ", "[", "text", "]", "(", "nonexistent", ".md", ")">>],
       [path |-> <<"examples", "/", "demo", ".md">>,
        content |-> <<"#", " ", "Demo">>],
       [path |-> <<"examples", "/", "workflows", "_", "guide", ".md">>,
        content |-> <<"text">>],
       [path |-> <<"rules", "/", "CONTRIBUTING", ".md">>,
        content |-> <<"#", " ", "Contributing">>],
       [path |-> <<"manuscript", "/", "draft", ".md">>,
        content |-> <<"#", " ", "Draft">>] >>

\* at most this many files in a tree
MaxFiles == 2

\* which glob of find_all_markdown_files yields the file: 1 the base directory's
\* "*.md", 2 workflows/, then the loop over 3 examples/, 4 rules/, 5 manuscript/
GlobOf(path) ==
    IF LastSlash(path) = 0 THEN 1
    ELSE IF path[1] = "workflows" THEN 2
    ELSE IF path[1] = "examples" THEN 3
    ELSE IF path[1] = "rules" THEN 4
    ELSE 5

\* the directory a file is in
Directory(path) == SubSeq(path, 1, LastSlash(path))

\* The orders md_files can have, as sequences of catalog positions: the globs come one
\* after the other, a recursive glob lists a directory's files together, and the order
\* of the entries of one directory is the file system's (any order).
ListingOrders ==
    {s \in UNION {[1..m -> 1..Len(Catalog)] : m \in 0..MaxFiles} :
        /\ \A i, j \in 1..Len(s) : i < j =>
               /\ s[i] # s[j]
               /\ GlobOf(Catalog[s[i]].path) <= GlobOf(Catalog[s[j]].path)
        /\ \A i, j, k \in 1..Len(s) : (i < j /\ j < k) =>
               (Directory(Catalog[s[i]].path) = Directory(Catalog[s[k]].path)
                   => Directory(Catalog[s[j]].path) = Directory(Catalog[s[i]].path))}

\* the source trees, each as the list find_all_markdown_files returns for it
Trees == {[n \in 1..Len(s) |-> Catalog[s[n]]] : s \in ListingOrders}

(***************************************************************************)
(* build_documentation as a state machine.  Every file read and rewrite is *)
(* one step; the process can be killed between any two steps, or inside a  *)
(* step's write, and the build started again on the same source tree (an   *)
(* unchanged directory is listed in the same order again).                 *)
(***************************************************************************)
\* at most this many kills
MaxInterrupts == 1

NoLint == [raised |-> FALSE, blocked |-> FALSE, passed |-> FALSE, message |-> "none"]

\* the state of a process that has just started build_documentation
Fresh ==
    /\ file_map = EmptyFileMap
    /\ workflow_links = <<>>
    /\ pc = "copy"
    /\ idx = 1
    /\ issues = <<>>
    /\ lint_env = "unknown"
    /\ lint_result = NoLint
    /\ steps = <<"copy">>

HarnessIdle ==
    /\ arg = <<>>
    /\ calls = 0
    /\ snap = EmptyFs
    /\ res = <<>>

Init ==
    /\ tree \in Trees
    /\ docs = EmptyFs
    /\ interrupts = 0
    /\ Fresh
    /\ HarnessIdle

harness == <<arg, calls, snap, res>>

\* Step 1, one file: the body of copy_and_organize_files' loop
CopyFile ==
    /\ pc = "copy"
    /\ idx <= Len(tree)
    /\ docs' = CopyOne(docs, file_map, tree[idx]).fs
    /\ file_map' = CopyOne(docs, file_map, tree[idx]).fm
    /\ idx' = idx + 1
    /\ UNCHANGED <<tree, workflow_links, pc, issues, lint_env, lint_result, steps,
                   interrupts, harness>>

\* Step 1 returns; step 2 begins
CopyDone ==
    /\ pc = "copy"
    /\ idx > Len(tree)
    /\ pc' = "badges"
    /\ idx' = 1
    /\ steps' = Append(steps, "badges")
    /\ UNCHANGED <<tree, docs, file_map, workflow_links, issues, lint_env, lint_result,
                   interrupts, harness>>

\* Step 2, one file
BadgeFile ==
    /\ pc = "badges"
    /\ idx <= Len(file_map.workflows)
    /\ docs' = add_reproduction_badges(docs, file_map.workflows[idx])
    /\ idx' = idx + 1
    /\ UNCHANGED <<tree, file_map, workflow_links, pc, issues, lint_env, lint_result,
                   steps, interrupts, harness>>

\* Step 2 ends; step 3 begins with create_cross_references' link map
BadgesDone ==
    /\ pc = "badges"
    /\ idx > Len(file_map.workflows)
    /\ pc' = "xref"
    /\ idx' = 1
    /\ workflow_links' = BuildWorkflowLinks(<<>>, file_map.workflows)
    /\ steps' = Append(steps, "xref")
    /\ UNCHANGED <<tree, docs, file_map, issues, lint_env, lint_result, interrupts, harness>>

\* Step 3, one file
XrefFile ==
    /\ pc = "xref"
    /\ idx <= Len(file_map.workflows)
    /\ docs' = add_cross_references_to_file(docs, file_map.workflows[idx], workflow_links)
    /\ idx' = idx + 1
    /\ UNCHANGED <<tree, file_map, workflow_links, pc, issues, lint_env, lint_result,
                   steps, interrupts, harness>>

\* Step 3 ends; step 4 begins
XrefDone ==
    /\ pc = "xref"
    /\ idx > Len(file_map.workflows)
    /\ pc' = "index"
    /\ steps' = Append(steps, "index")
    /\ UNCHANGED <<tree, docs, file_map, workflow_links, idx, issues, lint_env,
                   lint_result, interrupts, harness>>

\* Step 4: generate_index_readme; step 5 begins
GenerateIndex ==
    /\ pc = "index"
    /\ docs' = WriteIndex(docs, generate_index_readme(docs, file_map))
    /\ pc' = "validate"
    /\ steps' = Append(steps, "validate")
    /\ UNCHANGED <<tree, file_map, workflow_links, idx, issues, lint_env, lint_result,
                   interrupts, harness>>

\* Step 5: validate_internal_links (read_text raises on a missing file); step 6 begins
ValidateLinks ==
    /\ pc = "validate"
    /\ IF \A n \in 1..Len(AllFiles(file_map)) : Exists(docs, AllFiles(file_map)[n])
       THEN /\ issues' = validate_internal_links(docs, file_map)
            /\ pc' = "lint"
            /\ steps' = Append(steps, "lint")
       ELSE /\ pc' = "crashed"
            /\ UNCHANGED <<issues, steps>>
    /\ UNCHANGED <<tree, docs, file_map, workflow_links, idx, lint_env, lint_result,
                   interrupts, harness>>

\* Step 6: run_markdown_lint, then the closing banner; an exception that leaves
\* run_markdown_lint leaves build_documentation too, before the banner; while the
\* child does not end the run stays inside run_markdown_lint ("lint_waiting"), where
\* no step of the run is enabled
RunLint ==
    /\ pc = "lint"
    /\ \E env \in {"pass", "fail", "missing", "unstartable", "undecodable", "hangs"} :
          /\ lint_env' = env
          /\ lint_result' = run_markdown_lint(env)
          /\ pc' = IF run_markdown_lint(env).blocked THEN "lint_waiting"
                   ELSE IF run_markdown_lint(env).raised THEN "crashed"
                   ELSE "done"
    /\ UNCHANGED <<tree, docs, file_map, workflow_links, idx, issues, steps,
                   interrupts, harness>>

\* the steps of one run of build_documentation
RunNext ==
    \/ CopyFile
    \/ CopyDone
    \/ BadgeFile
    \/ BadgesDone
    \/ XrefFile
    \/ XrefDone
    \/ GenerateIndex
    \/ ValidateLinks
    \/ RunLint

\* The build is started again after a kill: what was in memory is lost
Restart ==
    /\ interrupts < MaxInterrupts
    /\ interrupts' = interrupts + 1
    /\ file_map' = EmptyFileMap
    /\ workflow_links' = <<>>
    /\ pc' = "copy"
    /\ idx' = 1
    /\ issues' = <<>>
    /\ lint_env' = "unknown"
    /\ lint_result' = NoLint
    /\ steps' = <<"copy">>
    /\ UNCHANGED <<tree, harness>>

\* The process is killed between two steps and the build is started again: the
\* files under docs/ stay as they are.
Interrupt ==
    /\ pc \notin {"done", "crashed"}
    /\ Restart
    /\ UNCHANGED docs

\* the file that the step about to run opens for writing, if it writes one
PendingWrites ==
    IF pc = "copy" /\ idx <= Len(tree)
    THEN {DestPath(Route(tree[n].path), tree[n].path) :
              n \in {m \in {idx} : Route(tree[m].path) # "none"}}
    ELSE IF pc = "badges" /\ idx <= Len(file_map.workflows)
    THEN {p \in {file_map.workflows[idx]} :
              Exists(docs, p) /\ ~Contains(docs[p], BadgeMarker)}
    ELSE IF pc = "xref" /\ idx <= Len(file_map.workflows)
    THEN {p \in {file_map.workflows[idx]} :
              /\ Exists(docs, p)
              /\ ~Contains(docs[p], RelatedHeader)
              /\ find_related_workflows(p, workflow_links) # <<>>}
    ELSE IF pc = "index" THEN {IndexPath}
    ELSE {}

\* The process is killed inside shutil.copy2 or Path.write_text, after the
\* destination was opened (created or truncated) and before its content, which is
\* smaller than one buffer, was written: the destination is left empty.  The build
\* is then started again.
InterruptInWrite ==
    /\ \E p \in PendingWrites : docs' = WriteFile(docs, p, <<>>)
    /\ Restart

Next == RunNext \/ Interrupt \/ InterruptInWrite

Spec == Init /\ [][Next]_vars

\* one run that is never killed; the interpreter keeps executing until the run ends
\* or waits in run_markdown_lint for a child that does not end
LiveSpec == Init /\ [][RunNext]_vars /\ WF_vars(RunNext)

(***************************************************************************)
(* Single methods: one method of the class applied to inputs drawn from    *)
(* bounded sets.  build_documentation is not running (pc names the method  *)
(* that is applied).                                                       *)
(***************************************************************************)
pipeline == <<tree, file_map, workflow_links, pc, idx, issues, lint_env, lint_result,
              steps, interrupts>>

PipelineIdle(unit) ==
    /\ tree = <<>>
    /\ pc = unit
    /\ idx = 1
    /\ issues = <<>>
    /\ lint_env = "unknown"
    /\ lint_result = NoLint
    /\ steps = <<>>
    /\ interrupts = 0

\* the sequences of 1 to n elements of S
SeqsUpTo(S, n) == UNION {[1..m -> S] : m \in 1..n}

\* the file system that holds one file
OneFile(p, c) == WriteFile(EmptyFs, p, c)

(***************************************************************************)
(* determine_category on paths <directory>/<stem>.md                       *)
(***************************************************************************)
\* at most this many parts, joined by "_", in a file name
MaxNameParts == 2

NameParts ==
    { <<"intro">>, <<"data">>, <<"Data">>, <<"plot">>, <<"maps">>, <<"spatial">>,
      <<"lm", "m">>, K01, K08, workflow_categories[10].key }

RECURSIVE JoinParts(_)
JoinParts(parts) ==
    IF Len(parts) = 1 THEN parts[1]
    ELSE parts[1] \o <<"_">> \o JoinParts(Tail(parts))

CategoryDirs ==
    { workflows_path,
      <<"workflows", "/">> \o K08,
      <<"docs", "/", "workflows", "/">> \o K08,
      <<"workflows", "/">> \o K01 }

CategoryPaths ==
    {PathJoin(d, JoinParts(parts) \o <<".md">>) :
        d \in CategoryDirs, parts \in SeqsUpTo(NameParts, MaxNameParts)}

InitCategory ==
    /\ arg \in CategoryPaths
    /\ docs = EmptyFs
    /\ file_map = EmptyFileMap
    /\ workflow_links = <<>>
    /\ calls = 0
    /\ snap = EmptyFs
    /\ res = <<>>
    /\ PipelineIdle("determine_category")

CallDetermineCategory ==
    /\ pc = "determine_category"
    /\ calls = 0
    /\ res' = determine_category(arg)
    /\ calls' = 1
    /\ UNCHANGED <<pipeline, docs, arg, snap>>

SpecCategory == InitCategory /\ [][CallDetermineCategory]_vars

(***************************************************************************)
(* add_reproduction_badges on one file, applied again and again            *)
(***************************************************************************)
\* at most this many lines after the padding in a file's content
MaxLines == 2

\* at most this many applications of a method
MaxCalls == 2

\* n lines of plain text before the lines the method looks for
RECURSIVE Padding(_)
Padding(n) == IF n = 0 THEN <<>> ELSE <<"text", NL>> \o Padding(n - 1)

\* the first such line is line 1, the last line the window covers, or the first after it
BadgePads == {0, HeadingWindow - 1, HeadingWindow}

BadgeTestLines ==
    { <<"#", " ", "Intro">>, <<"text">>, <<>>, <<"#", "#", " ", "Summary">>,
      <<" ", "#", " ", "Intro">>, BadgeLine("Reproducible", ReproducibleImage, repo_url) }

BadgeContents ==
    {Padding(n) \o JoinLines(ls) : n \in BadgePads, ls \in SeqsUpTo(BadgeTestLines, MaxLines)}

TestFile == PathJoin(workflows_path, <<"intro", ".md">>)

InitBadge ==
    /\ arg \in [path : {TestFile}, content : BadgeContents]
    /\ docs = OneFile(arg.path, arg.content)
    /\ file_map = EmptyFileMap
    /\ workflow_links = <<>>
    /\ calls = 0
    /\ snap = EmptyFs
    /\ res = <<>>
    /\ PipelineIdle("add_reproduction_badges")

CallAddBadges ==
    /\ pc = "add_reproduction_badges"
    /\ calls < MaxCalls
    /\ docs' = add_reproduction_badges(docs, arg.path)
    /\ snap' = IF calls = 0 THEN docs' ELSE snap
    /\ calls' = calls + 1
    /\ UNCHANGED <<pipeline, arg, res>>

SpecBadge == InitBadge /\ [][CallAddBadges]_vars

(***************************************************************************)
(* add_cross_references_to_file on one file, applied again and again with  *)
(* the same workflow link map                                              *)
(***************************************************************************)
XrefTestLines ==
    { <<"#", " ", "Intro">>, <<"text">>, <<"#", "#", " ", "Summary">>,
      <<"#", "#", " ", "Data", " ", "Summary">>, <<"#", "#", "#", " ", "Summary">>,
      <<"#", " ", "Summary">>, <<"#", "#", " ", "summary">>,
      RelatedHeader, <<"#">> \o RelatedHeader }

XrefContents == {JoinLines(ls) : ls \in SeqsUpTo(XrefTestLines, MaxLines)}

XrefFiles ==
    { PathJoin(workflows_path, K01 \o <<"_", "import", ".md">>),
      PathJoin(workflows_path, K02 \o <<"_", "plot", ".md">>),
      PathJoin(workflows_path, K08 \o <<"_", "maps", ".md">>),
      PathJoin(workflows_path, <<"intro", ".md">>) }

\* the lists file_map["workflows"] the link map is built from
XrefWorkflowLists ==
    { <<>>,
      << PathJoin(workflows_path, K01 \o <<"_", "import", ".md">>) >>,
      << PathJoin(workflows_path, K01 \o <<"_", "import", ".md">>),
         PathJoin(workflows_path, K02 \o <<"_", "plot", ".md">>) >>,
      << PathJoin(workflows_path, K02 \o <<"_", "plot", ".md">>),
         PathJoin(workflows_path, <<"visualization", "_", "Data", ".md">>),
         PathJoin(workflows_path, <<"univariate", "_", "visualization", ".md">>),
         PathJoin(workflows_path, <<"intro", ".md">>) >> }

InitXref ==
    /\ arg \in [path : XrefFiles, content : XrefContents]
    /\ docs = OneFile(arg.path, arg.content)
    /\ file_map = EmptyFileMap
    /\ workflow_links \in {BuildWorkflowLinks(<<>>, l) : l \in XrefWorkflowLists}
    /\ calls = 0
    /\ snap = EmptyFs
    /\ res = <<>>
    /\ PipelineIdle("add_cross_references_to_file")

CallAddCrossReferences ==
    /\ pc = "add_cross_references_to_file"
    /\ calls < MaxCalls
    /\ docs' = add_cross_references_to_file(docs, arg.path, workflow_links)
    /\ snap' = IF calls = 0 THEN docs' ELSE snap
    /\ calls' = calls + 1
    /\ UNCHANGED <<pipeline, arg, res>>

SpecXref == InitXref /\ [][CallAddCrossReferences]_vars

(***************************************************************************)
(* extract_workflow_title on one file                                      *)
(***************************************************************************)
TitleTestLines ==
    { <<"#", " ", "Vibe", " ", "Workflow", ":", " ", "Maps">>,
      <<"**", "Goal", ":", "**", " ", "Plot">>,
      <<"#", " ", "Intro">>,
      <<"#", " ", " ", "Demo", " ">>,
      <<"text">>,
      <<"#", "#", " ", "Summary">>,
      <<"#", " ">>,
      <<"**", "Goal", ":", "**", " ">>,
      <<"#", " ", "Vibe", " ", "Workflow", ":", " ">> }

TitleContents == {JoinLines(ls) : ls \in SeqsUpTo(TitleTestLines, MaxLines)}

TitleFiles ==
    { PathJoin(workflows_path, K01 \o <<"_", "import", ".md">>),
      PathJoin(workflows_path, <<"univariate", "_", "model", "s", ".md">>),
      PathJoin(workflows_path, <<"intro", ".md", ".md">>) }

InitTitle ==
    /\ arg \in [path : TitleFiles, content : TitleContents]
    /\ docs = OneFile(arg.path, arg.content)
    /\ file_map = EmptyFileMap
    /\ workflow_links = <<>>
    /\ calls = 0
    /\ snap = EmptyFs
    /\ res = <<>>
    /\ PipelineIdle("extract_workflow_title")

CallExtractWorkflowTitle ==
    /\ pc = "extract_workflow_title"
    /\ calls = 0
    /\ res' = extract_workflow_title(docs, arg.path)
    /\ calls' = 1
    /\ UNCHANGED <<pipeline, docs, arg, snap>>

SpecTitle == InitTitle /\ [][CallExtractWorkflowTitle]_vars

(***************************************************************************)
(* validate_internal_links on a FileMap of two files                       *)
(***************************************************************************)
\* at most this many pieces (links or text) in a file's content
MaxLinks == 2

MdLink(text, url) == <<"[">> \o text \o <<"]", "(">> \o url \o <<")">>

LinkPieces ==
    { MdLink(<<"text">>, <<"nonexistent", ".md">>),
      MdLink(<<"a">>, <<"intro", ".md">>),
      MdLink(<<"b">>, <<"examples", "/", "demo", ".md">>),
      MdLink(<<"site">>, <<"http", "s://example.org">>),
      MdLink(<<"mail">>, <<"mailto", ":", "a@b.org">>),
      MdLink(<<"n">>, <<"http", "_", "notes", ".md">>),
      <<"text">>,
      <<"[", "x", "]">> }

RECURSIVE Concat(_)
Concat(pieces) ==
    IF pieces = <<>> THEN <<>> ELSE Head(pieces) \o <<" ">> \o Concat(Tail(pieces))

LinkContents == {Concat(ps) : ps \in SeqsUpTo(LinkPieces, MaxLinks)}

LinkFileMap ==
    [EmptyFileMap EXCEPT !.workflows = <<TestFile>>,
                         !.examples = <<PathJoin(PathJoin(docs_path, <<"examples">>),
                                                 <<"demo", ".md">>)>>]

InitLinks ==
    /\ arg \in [first : LinkContents, second : {<<"#", " ", "Demo">>, Concat(<<MdLink(<<"up">>, <<"intro", ".md">>)>>)}]
    /\ file_map = LinkFileMap
    /\ docs = WriteFile(OneFile(LinkFileMap.workflows[1], arg.first),
                        LinkFileMap.examples[1], arg.second)
    /\ workflow_links = <<>>
    /\ calls = 0
    /\ snap = EmptyFs
    /\ res = <<>>
    /\ PipelineIdle("validate_internal_links")

CallValidateInternalLinks ==
    /\ pc = "validate_internal_links"
    /\ calls = 0
    /\ issues' = validate_internal_links(docs, file_map)
    /\ calls' = 1
    /\ UNCHANGED <<tree, file_map, workflow_links, pc, idx, lint_env, lint_result, steps,
                   interrupts, docs, arg, snap, res>>

SpecLinks == InitLinks /\ [][CallValidateInternalLinks]_vars

(***************************************************************************)
(* find_related_workflows on the file of one category, with link maps      *)
(* built from workflow files named after the categories                    *)
(***************************************************************************)
\* at most this many workflow files in an enumerated file_map["workflows"]
MaxWorkflows == 2

\* docs/workflows/<category key>.md for the k-th category of the table
CategoryFile(k) == PathJoin(workflows_path, workflow_categories[k].key \o <<".md">>)

\* one workflow file for every category, in table order
AllCategoryFiles == [k \in 1..Len(workflow_categories) |-> CategoryFile(k)]

\* the lists file_map["workflows"] the link map is built from
RelatedWorkflowLists ==
    {AllCategoryFiles}
    \cup {[n \in 1..Len(ks) |-> CategoryFile(ks[n])] :
             ks \in SeqsUpTo(1..Len(workflow_categories), MaxWorkflows)}

InitRelated ==
    /\ arg \in {CategoryFile(k) : k \in 1..Len(workflow_categories)}
    /\ docs = OneFile(arg, <<"text">>)
    /\ file_map = EmptyFileMap
    /\ workflow_links \in {BuildWorkflowLinks(<<>>, l) : l \in RelatedWorkflowLists}
    /\ calls = 0
    /\ snap = EmptyFs
    /\ res = <<>>
    /\ PipelineIdle("find_related_workflows")

CallFindRelatedWorkflows ==
    /\ pc = "find_related_workflows"
    /\ calls = 0
    /\ res' = find_related_workflows(arg, workflow_links)
    /\ calls' = 1
    /\ UNCHANGED <<pipeline, docs, arg, snap>>

SpecRelated == InitRelated /\ [][CallFindRelatedWorkflows]_vars

(***************************************************************************)
(* The claims.                                                             *)
(***************************************************************************)
\* the lines of the index
IndexLines == SplitLines(docs[IndexPath])

\* line l of the index is the link line, and the nearest heading above it is the
\* category heading "#### <label>"
ListedUnder(lines, label, title, link) ==
    \E h \in 1..Len(lines) : \E l \in (h + 1)..Len(lines) :
        /\ lines[h] = <<"#", "#", "#", "#", " ">> \o label
        /\ lines[l] = <<"-", " ", "[">> \o title \o <<"]", "(">> \o link \o <<")">>
        /\ \A j \in (h + 1)..(l - 1) : ~StartsWith(lines[j], <<"#">>)

\* the tree whose only markdown file is workflows/01_data_wrangling/intro.md, "# Intro"
MinimalTree ==
    << [path |-> <<"workflows", "/", "01", "_", "data", "_", "wrangling", "/", "intro", ".md">>,
        content |-> <<"#", " ", "Intro">>] >>

\* C1 (as claimed): after the full pipeline on the minimal tree, docs/README.md lists
\* [Intro](workflows/intro.md) under the heading that carries the Data Wrangling label.
C1_IntroListedUnderDataWrangling ==
    (pc = "done" /\ tree = MinimalTree)
        => ListedUnder(IndexLines, <<":broom:", " ", "Data", " ", "Wrangling">>,
                       <<"Intro">>, <<"workflows", "/", "intro", ".md">>)

\* a category key that comes before the key at position k in workflow_categories occurs in s
EarlierKeyIn(s, k) == \E j \in 1..(k - 1) : Contains(s, workflow_categories[j].key)

SpatialPosition == CHOOSE k \in 1..Len(workflow_categories) : workflow_categories[k].key = K08

\* C2 (as claimed): every path that contains "08_spatial_analysis" resolves to
\* "08_spatial_analysis", whatever its file name is.
C2_SpatialPathAlwaysSpatial ==
    (pc = "determine_category" /\ calls = 1 /\ Contains(arg, K08)) => res = K08

\* C2 (amended): a path that contains "08_spatial_analysis" and none of the category
\* keys that come before it in the table resolves to "08_spatial_analysis", whatever
\* else its file name holds (later category keys, fallback keywords).
C2_SpatialPathWithoutEarlierKey ==
    (pc = "determine_category" /\ calls = 1 /\ Contains(arg, K08)
        /\ ~EarlierKeyIn(arg, SpatialPosition))
        => res = K08

\* C2 witness: the directory is 08_spatial_analysis and the file name holds the
\* fallback keyword "data" and the later key 09_species_distribution.
C2_Witness ==
    /\ pc = "determine_category"
    /\ calls = 1
    /\ Contains(arg, <<"workflows", "/">> \o K08 \o <<"/">>)
    /\ Contains(PathName(arg), <<"data", "_">> \o workflow_categories[10].key)
    /\ res = K08

\* how many badge blocks the file holds more than the content it started from
InsertedBadges(before, after) == Count(after, BadgeMarker) - Count(before, BadgeMarker)

\* C3: applying add_reproduction_badges again leaves the content of the first
\* application, and the file never holds more than one inserted badge block.
C3_BadgesIdempotent ==
    pc = "add_reproduction_badges" =>
        /\ calls >= 2 => docs = snap
        /\ calls >= 1 => InsertedBadges(arg.content, docs[arg.path]) <= 1
        /\ Count(docs[arg.path], badge_section) <= 1

\* C3 witness: a file without badges got its block on the first application and the
\* second application has run.
C3_Witness ==
    /\ pc = "add_reproduction_badges"
    /\ calls = 2
    /\ ~Contains(arg.content, BadgeMarker)
    /\ Count(docs[arg.path], badge_section) = 1

\* the claim's case: no "## Related Workflows" in the file, a non-empty related set
CrossReferenceCase ==
    /\ pc = "add_cross_references_to_file"
    /\ ~Contains(arg.content, RelatedHeader)
    /\ find_related_workflows(arg.path, workflow_links) # <<>>

\* the lines of s that are the header "## Related Workflows"
RelatedHeaderLines(s) == {n \in 1..Len(SplitLines(s)) : SplitLines(s)[n] = RelatedHeader}

\* C4: in that case, after one or more runs the file holds exactly one
\* "## Related Workflows" section, and a second run changes nothing.
C4_CrossReferencesIdempotent ==
    (CrossReferenceCase /\ calls >= 1) =>
        /\ Count(docs[arg.path], RelatedHeader) = 1
        /\ Cardinality(RelatedHeaderLines(docs[arg.path])) = 1
        /\ calls >= 2 => docs = snap

\* C4 witness: the section was inserted by the first run and the second run is over.
C4_Witness ==
    /\ CrossReferenceCase
    /\ calls = 2
    /\ docs[arg.path] # arg.content
    /\ Contains(docs[arg.path], RelatedHeader)

\* the destinations copy_and_organize_files lists as workflow copies
WorkflowCopies == {file_map.workflows[n] : n \in 1..Len(file_map.workflows)}

\* the content the copy step left at a workflow destination: that of the last file of
\* the tree that is routed there
CopiedContent(dest) ==
    LET from == {n \in 1..Len(tree) :
                    Route(tree[n].path) = "workflows"
                    /\ DestPath("workflows", tree[n].path) = dest}
    IN  tree[CHOOSE n \in from : \A m \in from : m <= n].content

\* the badge step inserts a block into this content
GetsBadges(content) ==
    ~Contains(content, BadgeMarker) /\ BadgeHeadings(SplitLines(content)) # {}

\* C5 (as claimed): when the build has completed, whether or not earlier runs were
\* killed, docs/ is what one uninterrupted run leaves, and every workflow copy holds
\* exactly one badge block and at most one "## Related Workflows" section.
C5_RerunExactlyOneBadgeBlock ==
    pc = "done" =>
        /\ docs = build_documentation(EmptyFs, tree)
        /\ \A p \in WorkflowCopies :
              /\ Count(docs[p], BadgeMarker) = 1
              /\ Count(docs[p], RelatedHeader) <= 1

\* C5 (amended): when the build has completed, whether or not earlier runs were
\* killed, docs/ is what one uninterrupted run leaves; every workflow copy holds one
\* badge block more than its source if the source has no badge marker and has a
\* heading in its first 10 lines, none more otherwise, and at most one
\* "## Related Workflows" section more than its source.
C5_RerunEqualsSingleRun ==
    pc = "done" =>
        /\ docs = build_documentation(EmptyFs, tree)
        /\ \A p \in WorkflowCopies :
              /\ InsertedBadges(CopiedContent(p), docs[p])
                     = (IF GetsBadges(CopiedContent(p)) THEN 1 ELSE 0)
              /\ Count(docs[p], RelatedHeader) - Count(CopiedContent(p), RelatedHeader) <= 1

\* C5 witness: a run was killed, the build ran again to completion, and the tree has
\* a workflow copy with a badge block and a related section and one without a block.
C5_Witness ==
    /\ pc = "done"
    /\ interrupts >= 1
    /\ \E p \in WorkflowCopies :
          Count(docs[p], BadgeMarker) = 1 /\ Count(docs[p], RelatedHeader) = 1
    /\ \E p \in WorkflowCopies : Count(docs[p], BadgeMarker) = 0

\* the claim's precedence: the capture of the first line that starts with the prefix,
\* for the first of the three prefixes that has such a line, else the file name
ClaimedTitle(content, file_path) ==
    LET lines == SplitLines(content)
        Has(prefix) == \E n \in 1..Len(lines) :
                           StartsWith(lines[n], prefix) /\ Len(lines[n]) > Len(prefix)
        vibe == <<"#", " ", "Vibe", " ", "Workflow", ":", " ">>
        goal == <<"**", "Goal", ":", "**", " ">>
        heading == <<"#", " ">>
    IN  IF Has(vibe) THEN Strip(FirstCapture(lines, vibe))
        ELSE IF Has(goal) THEN Strip(FirstCapture(lines, goal))
        ELSE IF Has(heading) THEN Strip(FirstCapture(lines, heading))
        ELSE Title(ReplaceUnderscores(PathStem(file_path)))

\* C6: extract_workflow_title returns the capture of the first "# Vibe Workflow: ..."
\* heading, else of the first "**Goal:** ..." line, else of the first "# ..." heading,
\* else the title-cased file name; a Goal line wins over a generic heading wherever
\* the two lines are.
C6_TitlePrecedence ==
    (pc = "extract_workflow_title" /\ calls = 1) =>
        /\ res = ClaimedTitle(arg.content, arg.path)
        /\ (arg.content = <<"#", " ", "Intro", NL, "**", "Goal", ":", "**", " ", "Plot">>
               => res = <<"Plot">>)

\* C6 witness: the generic heading comes first, the Goal line second, and the Goal wins.
C6_Witness ==
    /\ pc = "extract_workflow_title"
    /\ calls = 1
    /\ arg.content = <<"#", " ", "Intro", NL, "**", "Goal", ":", "**", " ", "Plot">>
    /\ res = <<"Plot">>

\* a link target that begins with a URL scheme
HasUrlScheme(url) ==
    \/ StartsWith(url, <<"http", "s://example.org">>)
    \/ StartsWith(url, <<"http", "://example.org">>)
    \/ StartsWith(url, <<"mailto", ":">>)

\* the diagnostics the claim describes: one for each link occurrence whose target has
\* no URL scheme and is neither the name nor the docs-relative path of a FileMap file
RECURSIVE ClaimedIssues(_, _, _)
ClaimedIssues(fs, fm, files) ==
    IF files = <<>> THEN <<>>
    ELSE LET Broken(l) == ~HasUrlScheme(l.url) /\ l.url \notin AvailableFiles(fm)
             broken == SelectSeq(FindLinks(fs[Head(files)]), Broken)
         IN  [n \in 1..Len(broken) |-> BrokenLinkMessage(Head(files), broken[n])]
             \o ClaimedIssues(fs, fm, Tail(files))

\* C7 (as claimed): validate_internal_links reports exactly the link occurrences whose
\* target does not begin with a URL scheme and is no file of the FileMap.
C7_ReportsExactlyBrokenLinks ==
    (pc = "validate_internal_links" /\ calls = 1)
        => issues = ClaimedIssues(docs, file_map, AllFiles(file_map))

SixSteps == <<"copy", "badges", "xref", "index", "validate", "lint">>

\* C8: every run reaches the "build complete" state, having gone through the six
\* steps in their order, with docs/README.md written.
C8_RunCompletes ==
    <>(pc = "done" /\ steps = SixSteps /\ Exists(docs, IndexPath))

\* the claim's routing rule
ClaimedRoute(relative_path) ==
    CASE Contains(relative_path, <<"workflows">>) -> "workflows"
      [] ~Contains(relative_path, <<"workflows">>)
         /\ Contains(relative_path, <<"examples">>) -> "examples"
      [] ~Contains(relative_path, <<"workflows">>)
         /\ ~Contains(relative_path, <<"examples">>)
         /\ Contains(relative_path, <<"rules">>) -> "rules"
      [] OTHER -> IF PathName(relative_path) \in {<<"README", ".md">>,
                                                  <<"CODE", "_", "OF", "_", "CONDUCT", ".md">>}
                  THEN "main" ELSE "none"

ClaimedDest(relative_path) ==
    (CASE ClaimedRoute(relative_path) = "workflows" -> <<"docs", "/", "workflows", "/">>
       [] ClaimedRoute(relative_path) = "examples" -> <<"docs", "/", "examples", "/">>
       [] ClaimedRoute(relative_path) = "rules" -> <<"docs", "/", "rules", "/">>
       [] OTHER -> <<"docs", "/">>) \o PathName(relative_path)

\* the files the copy loop has gone through in this run
Copied == IF pc = "copy" THEN SubSeq(tree, 1, idx - 1) ELSE tree

\* the destinations of the copied files the claim routes to a list, in order
ClaimedList(route) ==
    LET There(f) == ClaimedRoute(f.path) = route
        files == SelectSeq(Copied, There)
    IN  [n \in 1..Len(files) |-> ClaimedDest(files[n].path)]

InPipeline ==
    pc \in {"copy", "badges", "xref", "index", "validate", "lint", "lint_waiting", "done"}

\* C9: every file the copy loop has gone through is in the list of the first rule its
\* relative path matches, with its copy at that rule's destination, and in no other
\* list; a file that matches no rule is in no list and has no copy under docs/.
C9_RoutingByFirstMatch ==
    InPipeline =>
        /\ \A r \in {"workflows", "examples", "rules", "main"} : file_map[r] = ClaimedList(r)
        /\ \A n \in 1..Len(Copied) :
              ClaimedRoute(Copied[n].path) # "none"
                  => Exists(docs, ClaimedDest(Copied[n].path))
        /\ \A p \in DOMAIN docs :
              \/ p = IndexPath
              \/ \E n \in 1..Len(tree) : ClaimedRoute(tree[n].path) # "none"
                                         /\ p = ClaimedDest(tree[n].path)

\* C9 witness: the copy step is over for a tree with a file under examples/ whose
\* name contains "workflows" (routed to the workflows) and a file that matches no rule.
C9_Witness ==
    /\ pc = "badges"
    /\ \E n \in 1..Len(tree) : /\ Contains(tree[n].path, <<"examples">>)
                               /\ Contains(tree[n].path, <<"workflows">>)
                               /\ ClaimedDest(tree[n].path) \in WorkflowCopies
    /\ \E n \in 1..Len(tree) : ClaimedRoute(tree[n].path) = "none"

\* the heading lines, of any level, that contain "Summary"
HeadingsWithSummary(lines) ==
    {n \in 1..Len(lines) : lines[n] # <<>> /\ lines[n][1] = "#"
                           /\ \E k \in 1..Len(lines[n]) : lines[n][k] = "Summary"}

\* the lines that start with "## " and contain "Summary"
Level2HeadingsWithSummary(lines) ==
    {n \in 1..Len(lines) : Len(lines[n]) >= 3 /\ SubSeq(lines[n], 1, 3) = <<"#", "#", " ">>
                           /\ \E k \in 1..Len(lines[n]) : lines[n][k] = "Summary"}

\* the content after the first run, with the section before the last line of hs, or
\* at the end when hs is empty
SectionPlaced(hs) ==
    LET lines == SplitLines(arg.content)
        section == cross_ref_section(find_related_workflows(arg.path, workflow_links))
    IN  IF hs = {} THEN docs[arg.path] = arg.content \o section
        ELSE LET last == CHOOSE h \in hs : \A g \in hs : g <= h
                 before == IF last = 1 THEN <<>>
                           ELSE JoinLines(SubSeq(lines, 1, last - 1)) \o <<NL>>
                 after == JoinLines(SubSeq(lines, last, Len(lines)))
             IN  /\ arg.content = before \o after
                 /\ docs[arg.path] = before \o section \o <<NL>> \o after

\* C10 (as claimed): the section goes immediately before the last heading line, of any
\* level, that contains "Summary", and at the end only when there is no such heading.
C10_BeforeLastSummaryHeadingAnyLevel ==
    (CrossReferenceCase /\ calls = 1)
        => SectionPlaced(HeadingsWithSummary(SplitLines(arg.content)))

\* C10 (amended): the section goes immediately before the last line that starts with
\* "## " and contains "Summary" (a level-2 heading), and at the end when there is no
\* such line; all original lines are kept in their order.
C10_BeforeLastLevel2SummaryHeading ==
    (CrossReferenceCase /\ calls = 1)
        => SectionPlaced(Level2HeadingsWithSummary(SplitLines(arg.content)))

\* C10 witness: the file has two level-2 Summary headings and the section was put
\* before the second one.
C10_Witness ==
    /\ CrossReferenceCase
    /\ calls = 1
    /\ arg.content = <<"#", "#", " ", "Summary", NL, "#", "#", " ", "Data", " ", "Summary">>
    /\ StartsWith(docs[arg.path], <<"#", "#", " ", "Summary", NL, NL>> \o RelatedHeader)

\* the category key without its numeric prefix "NN_"
KeyWithoutPrefix(k) == SubSeq(workflow_categories[k].key, 3, Len(workflow_categories[k].key))

\* the keys of the relationships table
RelationshipKeys == {relationships[n].key : n \in 1..Len(relationships)}

\* C11 (as claimed): for every category other than 00_agentic_prompt_templates the key
\* without its numeric prefix is a key of the relationships table, and
\* find_related_workflows, applied to a file of that category with a link map that
\* holds a workflow file of every category, returns a non-empty related set.
C11_RelationshipsKeyedByCategory ==
    (pc = "find_related_workflows" /\ calls = 1
        /\ workflow_links = BuildWorkflowLinks(<<>>, AllCategoryFiles))
        => \A k \in 2..Len(workflow_categories) :
               arg = CategoryFile(k)
                   => KeyWithoutPrefix(k) \in RelationshipKeys /\ res # <<>>

\* C12 (as claimed): when the copy step has ended, no list of the file_map holds the
\* same destination twice, and the copy of every routed file of the tree holds that
\* file's content.
C12_DistinctDestinations ==
    (pc = "badges" /\ idx = 1) =>
        /\ \A r \in {"workflows", "examples", "rules", "main"} :
              \A i, j \in 1..Len(file_map[r]) :
                  i # j => file_map[r][i] # file_map[r][j]
        /\ \A n \in 1..Len(tree) :
              ClaimedRoute(tree[n].path) # "none"
                  => docs[ClaimedDest(tree[n].path)] = tree[n].content

====
